---- MODULE Spec2Model ----
(***************************************************************************)
(* The /api/ask endpoint of the Vation AI Search POC.  The repository      *)
(* holds five revisions of the same serverless handler:                    *)
(*   rev "A"  src/api/ask.js 1-224      sitemap discovery + keyword score  *)
(*   rev "B"  src/api/ask.js 226-469    presets + cache + retry (the file  *)
(*                                      ends inside the handler, line 469) *)
(*   rev "C"  src/unnamed/part_000      guided conversational variant      *)
(*   rev "D"  src/unnamed/part_001      quota-controlled variant, retries  *)
(*   rev "E"  src/unnamed/part_002      "demo safe" variant with the cache *)
(* One deployment runs one revision; requests are served one at a time.    *)
(*                                                                         *)
(* JavaScript values are modelled as strings; a value starting with "#"    *)
(* stands for something that is not a string in the program.               *)
(***************************************************************************)
EXTENDS Integers, Sequences, FiniteSets, TLC

VARIABLES
    rev,        \* the revision deployed
    apiKey,     \* process.env.GEMINI_API_KEY is set
    clock,      \* Date.now(), in ms since the deployment started
    CACHE,      \* the module-level Map: key -> [ts, data]
    pc,         \* position of the handler
    req,        \* the request being served
    res,        \* the response written so far
    thrown,     \* an exception was raised in the handler: "no", "caught" or "escaped"
    urls,       \* URLs selected for retrieval
    idx,        \* loop index of the sequential page loop
    pages,      \* pages retrieved so far (url, title)
    gem,        \* model client: attempt number, calls made, backoffs, last result
    net,        \* outbound calls made for this request
    cacheLog,   \* history: the last cacheGet (key, entry read, time, result)
    storedBy    \* history: key -> the request whose handler stored the entry

vars == <<rev, apiKey, clock, CACHE, pc, req, res, thrown, urls, idx, pages,
          gem, net, cacheLog, storedBy>>

-----------------------------------------------------------------------------
(* Bounds of the model *)

MaxTicks == 3          \* the clock advances at most this many times
TickMs == 300000       \* by this many milliseconds each time

-----------------------------------------------------------------------------
(* JavaScript values *)

Undefined == "#undefined"
Absent == "#absent"          \* a field the JSON body does not have

Truthy(v) == v \notin {Undefined, ""}

Revs == {"A", "B", "C", "D", "E"}
Methods == {"POST", "OPTIONS", "GET"}

\* req.body: a parsed object, a string that is not JSON, or undefined
BodyKinds == {"object", "unparsable", "undefined"}

\* Questions that name a preset by phrase, by whole word, by both phrases, or
\* only inside another word ("next")
PresetQuestions == {"our customer experience work", "Employee Experience tools",
                    "what is CX?", "ex onboarding", "next steps",
                    "customer experience vs employee experience"}
Questions == {Undefined, "", "  ", "pricing plans"} \cup PresetQuestions
Bases == {Undefined, "", "https://a.com", "https://b.com/", "vation.com"}
Presets == {Undefined, "core", "cx", "ex", "CX ", "partner"}
Blank == {"  ", " "}

DefaultBase == "https://vation.com"

\* String.prototype.trim on the strings of the model
Trim(s) == IF s \in Blank THEN "" ELSE IF s = "cx " THEN "cx" ELSE s

\* s.replace(/\/+$/, "") and s.replace(/\/$/, "") on the bases of the model
StripSlashes(s) == IF s = "https://b.com/" THEN "https://b.com" ELSE s
StripOneSlash(s) == IF s = "https://b.com/" THEN "https://b.com" ELSE s

\* fetch() and new URL() accept only absolute URLs
IsAbsoluteUrl(b) == b \in {"https://a.com", "https://b.com", "https://b.com/", DefaultBase}

-----------------------------------------------------------------------------
(* The outside world *)

\* What fetching one page can give: the fetch rejects, a non-2xx status, a
\* 2xx page whose stripped text is empty, short (1..200 chars) or long, the
\* last with or without a <title>.
PageOutcomes == {"neterr", "notok", "empty", "short", "long", "untitled"}

NoCandidates == "#nocandidates"   \* JSON without candidates[0].content.parts
NotJson == "#notjson"             \* a body r.json() rejects
ErrorJson == "#errorjson"         \* {error: {code, message}}
NetErr == "#neterr"               \* fetch() rejects; status 0 stands for it

ModelTexts == {"Answer one", " ", ""}

GeminiOutcomes ==
    {[status |-> 200, body |-> b] : b \in ModelTexts \cup {NoCandidates, NotJson}}
    \cup {[status |-> s, body |-> ErrorJson] : s \in {400, 429, 500, 503}}
    \cup {[status |-> 502, body |-> NotJson], [status |-> 0, body |-> NetErr]}

ROk(o) == o.status >= 200 /\ o.status <= 299

-----------------------------------------------------------------------------
(* Requests and responses *)

NoReq == [method |-> "#none", body |-> "undefined", question |-> Undefined,
          siteBaseUrl |-> Undefined, preset |-> Undefined]

Src(u, t) == [url |-> u, title |-> t]

NoBody == [answer |-> Absent, sources |-> <<>>, hasSources |-> FALSE,
           error |-> Absent, debug |-> Absent, model |-> Absent,
           preset |-> Absent, cached |-> FALSE]

NoRes == [sent |-> FALSE, status |-> 0, json |-> FALSE, cors |-> Absent,
          body |-> NoBody]

\* res.status(s).json(obj) / safeJson(res, s, obj)
Json(r, s, b) == [r EXCEPT !.sent = TRUE, !.status = s, !.json = TRUE, !.body = b]

\* res.status(s).end()
End(r, s) == [r EXCEPT !.sent = TRUE, !.status = s]

ErrorBody(msg) == [NoBody EXCEPT !.error = msg]

NoGem == [attempt |-> 0, calls |-> 0, slept |-> 0, firstStatus |-> -1, ok |-> FALSE, text |-> ""]
NoNet == [sitemap |-> 0, page |-> 0, model |-> 0]
NoLog == [key |-> Absent, found |-> FALSE, ts |-> 0, now |-> 0, hit |-> FALSE]

-----------------------------------------------------------------------------
(* Answer cache (revs B and E) *)

CACHE_TTL_MS == 10 * 60 * 1000

now == clock

\* cacheGet without the expiry test
CacheFresh_NoExpiry(cache, key, t) == key \in DOMAIN cache

\* cacheGet: an entry is there and is returned
CacheFresh(cache, key, t) == key \in DOMAIN cache /\ ~(t - cache[key].ts > CACHE_TTL_MS)

\* cacheGet: the map it leaves (an expired entry is deleted by the read)
CacheAfterGet(cache, key, t) ==
    IF key \in DOMAIN cache /\ t - cache[key].ts > CACHE_TTL_MS
    THEN [k \in DOMAIN cache \ {key} |-> cache[k]]
    ELSE cache

\* cacheSet
CacheAfterSet(cache, key, data, t) ==
    [k \in DOMAIN cache \cup {key} |-> IF k = key THEN [ts |-> t, data |-> data] ELSE cache[k]]

EmptyMap == [k \in {} |-> [ts |-> 0, data |-> NoBody]]

-----------------------------------------------------------------------------
(* Shared steps *)

Init ==
    /\ rev \in Revs
    /\ apiKey \in BOOLEAN
    /\ clock = 0
    /\ CACHE = EmptyMap
    /\ pc = "idle"
    /\ req = NoReq
    /\ res = NoRes
    /\ thrown = "no"
    /\ urls = <<>>
    /\ idx = 1
    /\ pages = <<>>
    /\ gem = NoGem
    /\ net = NoNet
    /\ cacheLog = NoLog
    /\ storedBy = [k \in {} |-> NoReq]

\* Time passes.
Tick ==
    /\ rev \in {"B", "E"}      \* only cacheGet and cacheSet read the clock
    /\ clock < MaxTicks * TickMs
    /\ clock' = clock + TickMs
    /\ UNCHANGED <<rev, apiKey, CACHE, pc, req, res, thrown, urls, idx, pages,
                   gem, net, cacheLog, storedBy>>

\* The fields each revision reads from the body; the others stay undefined.
ReadsQuestion == rev \in {"A", "B", "C", "D"}
ReadsPreset == rev \in {"B", "E"}
QuestionsOf(r) ==
    IF r = "B" THEN Questions ELSE Questions \ PresetQuestions
PresetsOf(r) == IF r = "E" THEN {Undefined, "cx"} ELSE Presets
BasesOf(r) == IF r = "E" THEN {Undefined, "https://a.com", "vation.com"} ELSE Bases

\* A request arrives.
Receive ==
    /\ pc = "idle"
    /\ \E m \in Methods, k \in BodyKinds, q \in QuestionsOf(rev), b \in BasesOf(rev), p \in PresetsOf(rev) :
        /\ k # "object" => q = Undefined /\ b = Undefined /\ p = Undefined
        /\ ~ReadsQuestion => q = Undefined
        /\ ~ReadsPreset => p = Undefined
        /\ req' = [method |-> m, body |-> k, question |-> q, siteBaseUrl |-> b,
                   preset |-> p]
    /\ pc' = "entry"
    /\ UNCHANGED <<rev, apiKey, clock, CACHE, res, thrown, urls, idx, pages, gem, net,
                   cacheLog, storedBy>>

\* The handler has returned: nothing of the request outlives it but the cache.
Return ==
    /\ pc \in {"done", "B_rest"}
    /\ pc' = "idle"
    /\ req' = NoReq
    /\ res' = NoRes
    /\ thrown' = "no"
    /\ urls' = <<>>
    /\ idx' = 1
    /\ pages' = <<>>
    /\ gem' = NoGem
    /\ net' = NoNet
    /\ cacheLog' = NoLog
    /\ UNCHANGED <<rev, apiKey, clock, CACHE, storedBy>>

-----------------------------------------------------------------------------
(* Helpers of the handlers *)

\* return res...json(...) and the like: the handler is over
Respond(r) ==
    /\ res' = r
    /\ pc' = "done"
    /\ thrown' = "no"

\* the handler's own catch block answers
Catch(r) ==
    /\ res' = r
    /\ pc' = "done"
    /\ thrown' = "caught"

\* an exception nobody catches: the handler's promise rejects, nothing is sent
Throw ==
    /\ res' = res
    /\ pc' = "done"
    /\ thrown' = "escaped"

\* fetch() of a URL built on a base that is not absolute can only reject
CanGive(base, o) == IsAbsoluteUrl(base) \/ o = "neterr"

\* s.slice(0, n)
Slice(s, n) == SubSeq(s, 1, IF Len(s) < n THEN Len(s) ELSE n)

-----------------------------------------------------------------------------
(* Rev E: src/unnamed/part_002 *)

E_model == "gemini-2.0-flash"

E_NoPages == "Content is temporarily unavailable for summarization. Please refer to the listed source pages."
E_NoAnswer == "The AI response could not be generated at this moment. Please retry once."

\* const { siteBaseUrl = "https://vation.com", preset = "core" } = body
E_siteBaseUrl(r) == IF r.siteBaseUrl = Undefined THEN DefaultBase ELSE r.siteBaseUrl
E_preset(r) == IF r.preset = Undefined THEN "core" ELSE r.preset

E_cacheKey(r) == E_preset(r) \o "-" \o E_model

E_pickUrls(siteBaseUrl, preset) ==
    LET base == StripSlashes(siteBaseUrl) IN
    CASE preset = "core" -> <<base \o "/solutions/", base \o "/offerings/">>
      [] preset = "cx" -> <<base \o "/solutions/customer-experience/">>
      [] preset = "ex" -> <<base \o "/solutions/employee-experience/">>
      [] OTHER -> <<base \o "/solutions/">>

\* fetchPageText: null on a rejected fetch or a non-2xx status, else the
\* stripped text; pages.filter(Boolean) also drops the empty text.  The
\* handler keeps the texts only; pages records which URLs gave them.
E_validPage(o) == o \in {"short", "long", "untitled"}

\* callGemini: json?.candidates?.[0]?.content?.parts?.[0]?.text || null
E_answerOf(o) == IF o.body \in ModelTexts /\ o.body # "" THEN o.body ELSE Undefined

E_Entry ==
    /\ pc = "entry" /\ rev = "E"
    /\ IF req.method # "POST"
       THEN /\ Respond(Json(res, 405, ErrorBody("POST only")))
            /\ UNCHANGED <<CACHE, cacheLog, urls>>
       ELSE IF ~apiKey
       THEN /\ Respond(Json(res, 500, ErrorBody("Missing GEMINI_API_KEY")))
            /\ UNCHANGED <<CACHE, cacheLog, urls>>
       ELSE IF req.body # "object"
       THEN \* JSON.parse throws, or undefined is destructured
            /\ Throw
            /\ UNCHANGED <<CACHE, cacheLog, urls>>
       ELSE LET cacheKey == E_cacheKey(req) IN
            /\ cacheLog' = [key |-> cacheKey,
                            found |-> cacheKey \in DOMAIN CACHE,
                            ts |-> IF cacheKey \in DOMAIN CACHE THEN CACHE[cacheKey].ts ELSE 0,
                            now |-> now,
                            hit |-> CacheFresh(CACHE, cacheKey, now)]
            /\ CACHE' = CacheAfterGet(CACHE, cacheKey, now)
            /\ IF CacheFresh(CACHE, cacheKey, now)
               THEN /\ Respond(Json(res, 200, CACHE[cacheKey].data))
                    /\ urls' = urls
               ELSE /\ urls' = E_pickUrls(E_siteBaseUrl(req), E_preset(req))
                    /\ pc' = "E_fetch"
                    /\ UNCHANGED <<res, thrown>>
    /\ UNCHANGED <<rev, apiKey, clock, req, idx, pages, gem, net, storedBy>>

\* const pages = await Promise.all(urls.map(fetchPageText)), the filter and
\* the branch on validPages.length
E_FetchPages ==
    /\ pc = "E_fetch" /\ rev = "E"
    /\ \E outs \in [1..Len(urls) -> PageOutcomes] :
        /\ \A i \in 1..Len(urls) : CanGive(E_siteBaseUrl(req), outs[i])
        /\ LET ok == {i \in 1..Len(urls) : E_validPage(outs[i])}
               valid == SelectSeq([i \in 1..Len(urls) |-> IF i \in ok THEN urls[i] ELSE Absent],
                                  LAMBDA u : u # Absent)
           IN /\ pages' = [i \in 1..Len(valid) |-> Src(valid[i], Absent)]
              /\ net' = [net EXCEPT !.page = @ + Len(urls)]
              /\ IF ok = {}
                 THEN Respond(Json(res, 200,
                          [NoBody EXCEPT !.answer = E_NoPages,
                                         !.sources = [i \in 1..Len(urls) |-> Src(urls[i], Absent)],
                                         !.hasSources = TRUE,
                                         !.preset = E_preset(req)]))
                 ELSE /\ pc' = "E_model"
                      /\ UNCHANGED <<res, thrown>>
    /\ UNCHANGED <<rev, apiKey, clock, CACHE, req, urls, idx, gem, cacheLog, storedBy>>

\* callGemini, then payload, cacheSet and the response
E_CallGemini ==
    /\ pc = "E_model" /\ rev = "E"
    /\ \E o \in GeminiOutcomes :
        /\ net' = [net EXCEPT !.model = @ + 1]
        /\ gem' = [gem EXCEPT !.calls = @ + 1, !.firstStatus = o.status]
        /\ IF o.body \in {NetErr, NotJson}
           THEN \* fetch or r.json() rejects; the handler has no try
                /\ Throw
                /\ UNCHANGED <<CACHE, storedBy>>
           ELSE LET answer == E_answerOf(o)
                    payload == [NoBody EXCEPT
                                  !.answer = IF Truthy(answer) THEN answer ELSE E_NoAnswer,
                                  !.sources = [i \in 1..Len(urls) |-> Src(urls[i], Absent)],
                                  !.hasSources = TRUE,
                                  !.model = E_model,
                                  !.preset = E_preset(req)]
                IN /\ CACHE' = CacheAfterSet(CACHE, E_cacheKey(req), payload, now)
                   /\ storedBy' = [k \in DOMAIN storedBy \cup {E_cacheKey(req)} |->
                                     IF k = E_cacheKey(req) THEN req ELSE storedBy[k]]
                   /\ Respond(Json(res, 200, payload))
    /\ UNCHANGED <<rev, apiKey, clock, req, urls, idx, pages, cacheLog>>

-----------------------------------------------------------------------------
(* Rev D: src/unnamed/part_001 *)

D_MAX_PAGES == 4
D_retries == 1

D_candidatePaths == <<"/", "/solutions/customer-experience/", "/solutions/employee-experience/",
                      "/about-vation/", "/our-culture/">>

D_NoPages == "I couldn't fetch public content from the website right now. Please try again or check if the site is blocking automated access."
D_Busy == "The AI service is busy right now. Please try again in 30 seconds. (This is a temporary quota/traffic limit.)"
D_Wrong == "Something went wrong while generating the answer. Please retry once."

\* new URL(p, siteBaseUrl).toString(), p an absolute path: origin + p
D_resolve(p, siteBaseUrl) == StripOneSlash(siteBaseUrl) \o p

\* fetchPageText: "" on a rejected fetch or a non-2xx status, else compact(stripHtml(html))
D_hasText(o) == o \in {"short", "long", "untitled"}

\* guessTitle(text): the first 60 characters of the text
D_guessTitle == "#text.slice(0, 60)"

\* callOnce: the {ok, status, text} it returns
D_callOnce(o) ==
    IF o.body = NetErr THEN [ok |-> FALSE, status |-> 503, text |-> ""]
    ELSE IF ~ROk(o) THEN [ok |-> FALSE, status |-> o.status, text |-> ""]
    ELSE [ok |-> TRUE, status |-> 200,
          text |-> Trim(IF o.body \in ModelTexts THEN o.body ELSE "")]

\* callGeminiWithRetry: "Only retry on 429/503-like situations"
D_retryable(status) == status = 429 \/ status = 503

D_sources == [i \in 1..Len(pages) |-> pages[i]]

\* the handler's tail, once callGeminiWithRetry has returned geminiResponse
D_Answer(geminiResponse) ==
    IF ~geminiResponse.ok
    THEN Respond(Json(res, 200, [NoBody EXCEPT !.answer = D_Busy, !.sources = D_sources,
                                               !.hasSources = TRUE]))
    ELSE Respond(Json(res, 200, [NoBody EXCEPT !.answer = geminiResponse.text,
                                               !.sources = D_sources, !.hasSources = TRUE,
                                               !.model = "gemini-2.0-flash"]))

D_Entry ==
    /\ pc = "entry" /\ rev = "D"
    /\ LET r == [res EXCEPT !.cors = "Content-Type"] IN
       IF req.method = "OPTIONS" THEN Respond(End(r, 200))
       ELSE IF req.method # "POST" THEN Respond(Json(r, 405, ErrorBody("Method Not Allowed")))
       ELSE IF ~Truthy(req.question) \/ ~Truthy(req.siteBaseUrl)
       THEN Respond(Json(r, 400, ErrorBody("Missing question or siteBaseUrl")))
       ELSE IF ~apiKey THEN Respond(Json(r, 500, ErrorBody("Server missing GEMINI_API_KEY")))
       ELSE /\ res' = r
            /\ pc' = "D_fetch"
            /\ thrown' = "no"
    /\ UNCHANGED <<rev, apiKey, clock, CACHE, req, urls, idx, pages, gem, net,
                   cacheLog, storedBy>>

\* one turn of: for (const p of candidatePaths) { ... }, and what follows the
\* loop when this turn was its last
D_FetchPage ==
    /\ pc = "D_fetch" /\ rev = "D"
    /\ IF ~IsAbsoluteUrl(req.siteBaseUrl)
       THEN \* new URL throws; catch (err) answers
            /\ Catch(Json(res, 200, [NoBody EXCEPT !.answer = D_Wrong, !.hasSources = TRUE,
                                                     !.debug = "Invalid URL"]))
            /\ UNCHANGED <<urls, idx, pages, net>>
       ELSE \E o \in PageOutcomes :
            LET url == D_resolve(D_candidatePaths[idx], req.siteBaseUrl)
                got == IF D_hasText(o) THEN Append(pages, Src(url, D_guessTitle)) ELSE pages
                over == idx = Len(D_candidatePaths) \/ Len(got) >= D_MAX_PAGES
            IN /\ urls' = Append(urls, url)
               /\ pages' = got
               /\ net' = [net EXCEPT !.page = @ + 1]
               /\ idx' = idx + 1
               /\ IF ~over THEN UNCHANGED <<pc, res, thrown>>
                  ELSE IF Len(got) = 0
                  THEN Respond(Json(res, 200, [NoBody EXCEPT !.answer = D_NoPages,
                                                             !.hasSources = TRUE]))
                  ELSE /\ pc' = "D_model"
                       /\ UNCHANGED <<res, thrown>>
    /\ UNCHANGED <<rev, apiKey, clock, CACHE, req, gem, cacheLog, storedBy>>

\* one turn of the loop of callGeminiWithRetry, up to its sleep
D_CallOnce ==
    /\ pc = "D_model" /\ rev = "D"
    /\ \E o \in GeminiOutcomes :
       LET result == D_callOnce(o) IN
        /\ net' = [net EXCEPT !.model = @ + 1]
        /\ gem' = [gem EXCEPT !.calls = @ + 1,
                              !.firstStatus = IF gem.calls = 0 THEN o.status ELSE @,
                              !.ok = result.ok, !.text = result.text]
        /\ IF result.ok \/ ~D_retryable(result.status)
           THEN D_Answer(result)
           ELSE /\ pc' = "D_sleep"
                /\ UNCHANGED <<res, thrown>>
    /\ UNCHANGED <<rev, apiKey, clock, CACHE, req, urls, idx, pages, cacheLog, storedBy>>

\* await sleep(900 + attempt * 700); attempt++; and the loop's exit
D_Backoff ==
    /\ pc = "D_sleep" /\ rev = "D"
    /\ gem' = [gem EXCEPT !.slept = @ + 1, !.attempt = @ + 1]
    /\ IF gem.attempt + 1 <= D_retries
       THEN /\ pc' = "D_model"
            /\ UNCHANGED <<res, thrown>>
       ELSE D_Answer([ok |-> FALSE, status |-> 429, text |-> ""])
    /\ UNCHANGED <<rev, apiKey, clock, CACHE, req, urls, idx, pages, net, cacheLog, storedBy>>

-----------------------------------------------------------------------------
(* Rev C: src/unnamed/part_000 *)

C_NoPages == "I couldn't find enough public information to answer this."
C_Unavailable == "The AI service is temporarily unavailable. Please retry once."
C_NoSummary == "I couldn't generate a clear summary from the available content."
C_Wrong == "Something went wrong while generating the response."

C_urls(siteBaseUrl) ==
    LET base == StripOneSlash(IF Truthy(siteBaseUrl) THEN siteBaseUrl ELSE DefaultBase)
    IN <<base \o "/", base \o "/solutions/", base \o "/contact/">>

C_base(r) == IF Truthy(r.siteBaseUrl) THEN r.siteBaseUrl ELSE DefaultBase

\* if (t.length > 200) pages.push(...)
C_longEnough(o) == o \in {"long", "untitled"}

C_Entry ==
    /\ pc = "entry" /\ rev = "C"
    /\ IF req.method # "POST" THEN Respond(Json(res, 405, ErrorBody("Use POST"))) /\ urls' = urls
       ELSE IF ~Truthy(req.question)
       THEN Respond(Json(res, 400, ErrorBody("Missing question"))) /\ urls' = urls
       ELSE IF ~apiKey
       THEN Respond(Json(res, 500, ErrorBody("Missing GEMINI_API_KEY"))) /\ urls' = urls
       ELSE /\ urls' = C_urls(req.siteBaseUrl)
            /\ pc' = "C_fetch"
            /\ UNCHANGED <<res, thrown>>
    /\ UNCHANGED <<rev, apiKey, clock, CACHE, req, idx, pages, gem, net, cacheLog, storedBy>>

\* one turn of: for (const u of urls) { try { ... } catch {} }, and the
\* branch on pages.length after the last turn
C_FetchPage ==
    /\ pc = "C_fetch" /\ rev = "C"
    /\ \E o \in PageOutcomes :
        /\ CanGive(C_base(req), o)
        /\ LET got == IF C_longEnough(o) THEN Append(pages, Src(urls[idx], Absent)) ELSE pages
           IN /\ pages' = got
              /\ net' = [net EXCEPT !.page = @ + 1]
              /\ idx' = idx + 1
              /\ IF idx < Len(urls) THEN UNCHANGED <<pc, res, thrown>>
                 ELSE IF Len(got) = 0
                 THEN Respond(Json(res, 200, [NoBody EXCEPT !.answer = C_NoPages]))
                 ELSE /\ pc' = "C_model"
                      /\ UNCHANGED <<res, thrown>>
    /\ UNCHANGED <<rev, apiKey, clock, CACHE, req, urls, gem, cacheLog, storedBy>>

\* the one fetch of the model endpoint and the response
C_CallGemini ==
    /\ pc = "C_model" /\ rev = "C"
    /\ \E o \in GeminiOutcomes :
        /\ net' = [net EXCEPT !.model = @ + 1]
        /\ gem' = [gem EXCEPT !.calls = @ + 1, !.firstStatus = o.status]
        /\ IF o.body \in {NetErr, NotJson}
           THEN \* fetch or r.json() rejects; catch (e) answers
                Catch(Json(res, 500, [NoBody EXCEPT !.answer = C_Wrong, !.error = "e.message"]))
           ELSE IF ~ROk(o)
           THEN Respond(Json(res, 200, [NoBody EXCEPT !.answer = C_Unavailable]))
           ELSE Respond(Json(res, 200,
                    [NoBody EXCEPT !.answer = IF o.body \in ModelTexts /\ o.body # ""
                                              THEN o.body ELSE C_NoSummary,
                                   !.sources = [i \in 1..Len(pages) |-> pages[i]],
                                   !.hasSources = TRUE]))
    /\ UNCHANGED <<rev, apiKey, clock, CACHE, req, urls, idx, pages, cacheLog, storedBy>>

-----------------------------------------------------------------------------
(* Rev A: src/api/ask.js 1-224 *)

A_NoPages == "I couldn't fetch enough public content from the website to answer confidently. Try again with different keywords, or provide a few page URLs to include."
A_NoKey == "Gemini API key missing on server."
A_GeminiError == "Gemini error: <status> <body>"
A_NoAnswer == "No answer returned."

\* <loc> entries of the sitemaps of the model, written relative to the base
\* URL of the request; OffSite is a URL of another host, NotHttp an entry
\* that does not start with "http"
OffSite == "@https://other.example/page"
NotHttp == "@/relative/path"

Null == [tag |-> "null", locs |-> <<>>]
XmlUrlset == [tag |-> "urlset",
              locs |-> <<"/insights/pricing/", "/about/#team", "/about/", "/logo.png", OffSite>>]
XmlFiltered == [tag |-> "urlset", locs |-> <<"/logo.png", OffSite, "/feed/">>]
XmlNoLocs == [tag |-> "urlset", locs |-> <<NotHttp>>]
XmlIndex == [tag |-> "sitemapindex", locs |-> <<"/post-sitemap.xml", "/page-sitemap.xml">>]

\* what fetchText can return for a sitemap URL, and for a child sitemap
SitemapResults == {Null, XmlUrlset, XmlFiltered, XmlNoLocs, XmlIndex}
ChildResults == {Null, XmlUrlset, XmlFiltered}

\* extractXmlLocs: the entries that start with "http"
extractXmlLocs(xml) == SelectSeq(xml.locs, LAMBDA l : l # NotHttp)

\* u.includes("/wp-json/") || u.includes("feed") || u.match(/\.(jpg|png|webp|gif|svg)$/i)
A_filtered(l) == l \in {"/logo.png", "/feed/"}

\* u.split("#")[0]
A_clean(l) == IF l = "/about/#team" THEN "/about/" ELSE l

RECURSIVE dedupeFrom(_, _, _)
dedupeFrom(locs, i, out) ==
    IF i > Len(locs) THEN out
    ELSE LET u == locs[i] IN
         IF u = OffSite \/ A_filtered(u) THEN dedupeFrom(locs, i + 1, out)
         ELSE IF \E j \in 1..Len(out) : out[j] = A_clean(u) THEN dedupeFrom(locs, i + 1, out)
         ELSE dedupeFrom(locs, i + 1, Append(out, A_clean(u)))

dedupeUrls(locs) == dedupeFrom(locs, 1, <<>>)

A_fallback == <<"/", "/about/", "/contact/", "/services/", "/insights/">>

RECURSIVE A_children(_, _, _)
\* all.push(...extractXmlLocs(childXml)) over the child sitemaps that load
A_children(kids, child, i) ==
    IF i > Len(kids) THEN <<>>
    ELSE (IF child[i] = Null THEN <<>> ELSE extractXmlLocs(child[i])) \o A_children(kids, child, i + 1)

\* one turn of the loop over sitemapCandidates: the list returned from inside
\* the loop, if any, and the child sitemaps fetched
A_fromSitemap(xml, child) ==
    IF xml = Null THEN [found |-> FALSE, out |-> <<>>, fetches |-> 0]
    ELSE IF xml.tag = "sitemapindex"
    THEN LET kids == Slice(extractXmlLocs(xml), 6)
             all == A_children(kids, child, 1)
         IN [found |-> Len(all) > 0, out |-> dedupeUrls(all), fetches |-> Len(kids)]
    ELSE LET found == extractXmlLocs(xml) IN
         [found |-> Len(found) > 0, out |-> dedupeUrls(found), fetches |-> 0]

\* getCandidateUrls: the list it returns and the fetches it makes
getCandidateUrls(w) ==
    LET first == A_fromSitemap(w.index, w.child)
        second == A_fromSitemap(w.plain, w.child)
    IN IF first.found THEN [out |-> first.out, fetches |-> 1 + first.fetches]
       ELSE IF second.found
       THEN [out |-> second.out, fetches |-> 2 + first.fetches + second.fetches]
       ELSE [out |-> A_fallback, fetches |-> 2 + first.fetches + second.fetches]

\* tokenize(question): lower-case alphanumeric words of 3 letters or more
tokenize(q) == IF q = "pricing plans" THEN {"pricing", "plans"}
               ELSE IF q = "our customer experience work"
                    THEN {"our", "customer", "experience", "work"}
               ELSE {}

\* u.includes(t) on the URLs and tokens of the model
A_includes(l, t) == l = "/insights/pricing/" /\ t = "pricing"

\* scoreUrl, doubled to stay in the integers
scoreUrl(l, qTokens) ==
    6 * Cardinality({t \in qTokens : A_includes(l, t)})
    + (IF l \in {"/insights/pricing/", "/insights/"} THEN 4 ELSE 0)
    + (IF l \in {"/", "/about/", "/contact/", "/services/", "/insights/", "/insights/pricing/"}
       THEN 1 ELSE 0)

RECURSIVE A_sorted(_, _, _)
\* scored.sort((a, b) => b.score - a.score): stable, highest score first
A_sorted(locs, i, qTokens) ==
    IF i = 0 THEN <<>>
    ELSE LET before == A_sorted(locs, i - 1, qTokens)
             u == locs[i]
             keep == {j \in 1..Len(before) : scoreUrl(before[j], qTokens) >= scoreUrl(u, qTokens)}
         IN SubSeq(before, 1, Cardinality(keep)) \o <<u>>
            \o SubSeq(before, Cardinality(keep) + 1, Len(before))

pickTopUrls(question, locs, topN) ==
    Slice(A_sorted(locs, Len(locs), tokenize(question)), topN)

A_base(r) == StripOneSlash(r.siteBaseUrl)

\* if (!text || text.length < 200) continue
A_longEnough(o) == o \in {"long", "untitled"}

\* title: guessTitle(html) || url
A_title(o, url) == IF o = "long" THEN "#title" ELSE url

\* the same answer sent as a server error
A_Degraded_500 == Json(res, 500, [NoBody EXCEPT !.answer = A_NoPages, !.hasSources = TRUE])

\* if (docs.length === 0) return res.json({answer, sources: []})
A_Degraded == Json(res, 200, [NoBody EXCEPT !.answer = A_NoPages, !.hasSources = TRUE])

A_Entry ==
    /\ pc = "entry" /\ rev = "A"
    /\ IF req.method # "POST" THEN Respond(Json(res, 405, ErrorBody("Use POST")))
       ELSE IF ~Truthy(req.question) \/ ~Truthy(req.siteBaseUrl)
       THEN Respond(Json(res, 400, ErrorBody("Missing question or siteBaseUrl")))
       ELSE /\ pc' = "A_select"
            /\ UNCHANGED <<res, thrown>>
    /\ UNCHANGED <<rev, apiKey, clock, CACHE, req, urls, idx, pages, gem, net,
                   cacheLog, storedBy>>

\* getCandidateUrls(base) and pickTopUrls(question, candidateUrls, 5); an
\* empty list skips the page loop
A_Select ==
    /\ pc = "A_select" /\ rev = "A"
    /\ \E i \in SitemapResults, s \in SitemapResults, c \in [1..2 -> ChildResults] :
        /\ ~IsAbsoluteUrl(req.siteBaseUrl) => i = Null /\ s = Null
        /\ LET got == getCandidateUrls([index |-> i, plain |-> s, child |-> c])
               picked == pickTopUrls(req.question, got.out, 5)
           IN /\ urls' = [j \in 1..Len(picked) |-> A_base(req) \o picked[j]]
              /\ net' = [net EXCEPT !.sitemap = got.fetches]
              /\ IF Len(picked) = 0 THEN Respond(A_Degraded)
                 ELSE /\ pc' = "A_fetch"
                      /\ UNCHANGED <<res, thrown>>
    /\ UNCHANGED <<rev, apiKey, clock, CACHE, req, idx, pages, gem, cacheLog, storedBy>>

\* one turn of: for (const url of picked) { ... }, and the branch on
\* docs.length after the last turn
A_FetchPage ==
    /\ pc = "A_fetch" /\ rev = "A"
    /\ \E o \in PageOutcomes :
        /\ CanGive(req.siteBaseUrl, o)
        /\ LET got == IF A_longEnough(o)
                      THEN Append(pages, Src(urls[idx], A_title(o, urls[idx])))
                      ELSE pages
               over == idx = Len(urls) \/ Len(got) >= 4
           IN /\ pages' = got
              /\ net' = [net EXCEPT !.page = @ + 1]
              /\ idx' = idx + 1
              /\ IF ~over THEN UNCHANGED <<pc, res, thrown>>
                 ELSE IF Len(got) = 0 THEN Respond(A_Degraded)
                 ELSE /\ pc' = "A_model"
                      /\ UNCHANGED <<res, thrown>>
    /\ UNCHANGED <<rev, apiKey, clock, CACHE, req, urls, gem, cacheLog, storedBy>>

\* askGemini(question, docs) and the response
A_AskGemini ==
    /\ pc = "A_model" /\ rev = "A"
    /\ LET sources == [i \in 1..Len(pages) |-> pages[i]]
           Answer(a) == Respond(Json(res, 200, [NoBody EXCEPT !.answer = a,
                                                              !.sources = sources,
                                                              !.hasSources = TRUE]))
       IN IF ~apiKey THEN Answer(A_NoKey) /\ UNCHANGED <<net, gem>>
          ELSE \E o \in GeminiOutcomes :
               /\ net' = [net EXCEPT !.model = @ + 1]
               /\ gem' = [gem EXCEPT !.calls = @ + 1, !.firstStatus = o.status]
               /\ IF o.body = NetErr \/ (ROk(o) /\ o.body = NotJson)
                  THEN \* fetch or r.json() rejects; catch (e) answers
                       Catch(Json(res, 500, [NoBody EXCEPT !.error = "Server error",
                                                             !.debug = "String(e)"]))
                  ELSE IF ~ROk(o) THEN Answer(A_GeminiError)
                  ELSE Answer(Trim(IF o.body \in ModelTexts /\ o.body # ""
                                   THEN o.body ELSE A_NoAnswer))
    /\ UNCHANGED <<rev, apiKey, clock, CACHE, req, urls, idx, pages, cacheLog, storedBy>>

-----------------------------------------------------------------------------
(* Rev B: src/api/ask.js 226-469.  The file ends after the handler has     *)
(* selected its URLs; of the rest only the model client it was written to  *)
(* call, callGeminiWithRetry, is in the source.                            *)

\* s.toLowerCase() on the strings of the model
Lower(s) == CASE s = "CX " -> "cx "
              [] s = "Employee Experience tools" -> "employee experience tools"
              [] s = "what is CX?" -> "what is cx?"
              [] OTHER -> s

\* q.includes(phrase) on the lower-cased questions of the model
B_includes(q, phrase) ==
    CASE phrase = "customer experience" ->
            q \in {"our customer experience work",
                   "customer experience vs employee experience"}
      [] phrase = "employee experience" ->
            q \in {"employee experience tools",
                   "customer experience vs employee experience"}
      [] OTHER -> FALSE

\* /\bcx\b/.test(q) and /\bex\b/.test(q): the word on its own, which "next"
\* and "experience" do not contain
B_hasWord(q, w) ==
    CASE w = "cx" -> q = "what is cx?"
      [] w = "ex" -> q = "ex onboarding"
      [] OTHER -> FALSE

\* the cx test without its whole-word alternative
B_saysCx_PhraseOnly(q) == B_includes(q, "customer experience")

\* q.includes("customer experience") || /\bcx\b/.test(q), and the same for ex
B_saysCx(q) == B_includes(q, "customer experience") \/ B_hasWord(q, "cx")
B_saysEx(q) == B_includes(q, "employee experience") \/ B_hasWord(q, "ex")

detectPreset(question, preset) ==
    LET p == Trim(Lower(IF Truthy(preset) THEN preset ELSE ""))
        q == Lower(IF Truthy(question) THEN question ELSE "")
    IN IF p \in {"cx", "ex", "core"} THEN p
       ELSE IF B_saysCx(q) THEN "cx"
       ELSE IF B_saysEx(q) THEN "ex"
       ELSE "core"

pickUrls(siteBaseUrl, preset) ==
    LET base == StripSlashes(IF Truthy(siteBaseUrl) THEN siteBaseUrl ELSE DefaultBase) IN
    CASE preset = "cx" -> <<base \o "/solutions/customer-experience/", base \o "/solutions/">>
      [] preset = "ex" -> <<base \o "/solutions/employee-experience/", base \o "/solutions/">>
      [] OTHER -> <<base \o "/", base \o "/solutions/", base \o "/offerings/">>

\* setCors
B_Cors == "Content-Type, Authorization"

\* const question = (body.question || "").trim()
B_question(r) == Trim(IF Truthy(r.question) THEN r.question ELSE "")
B_siteBaseUrl(r) == Trim(IF Truthy(r.siteBaseUrl) THEN r.siteBaseUrl ELSE DefaultBase)

B_Entry ==
    /\ pc = "entry" /\ rev = "B"
    /\ LET r == [res EXCEPT !.cors = B_Cors] IN
       IF req.method = "OPTIONS" THEN Respond(End(r, 204)) /\ urls' = urls
       ELSE IF req.method # "POST"
       THEN Respond(Json(r, 405, ErrorBody("Method not allowed. Use POST."))) /\ urls' = urls
       ELSE IF ~apiKey
       THEN Respond(Json(r, 500, ErrorBody("Missing GEMINI_API_KEY in Vercel env vars.")))
            /\ urls' = urls
       ELSE IF req.body = "unparsable"
       THEN Respond(Json(r, 400, ErrorBody("Invalid JSON body."))) /\ urls' = urls
       ELSE IF ~Truthy(B_question(req))
       THEN Respond(Json(r, 400, ErrorBody("Missing 'question'."))) /\ urls' = urls
       ELSE /\ urls' = pickUrls(B_siteBaseUrl(req), detectPreset(B_question(req), req.preset))
            /\ res' = r
            /\ pc' = "B_client"
            /\ thrown' = "no"
    /\ UNCHANGED <<rev, apiKey, clock, CACHE, req, idx, pages, gem, net, cacheLog, storedBy>>

\* callGemini: what it returns or throws.  ok: the text is returned;
\* otherwise status is e.status, 0 when the error carries none
callGemini(o) ==
    IF o.body = NetErr THEN [ok |-> FALSE, status |-> 0, text |-> ""]
    ELSE IF ~ROk(o) THEN [ok |-> FALSE, status |-> o.status, text |-> ""]
    ELSE LET text == Trim(IF o.body \in ModelTexts THEN o.body ELSE "") IN
         IF text = "" THEN [ok |-> FALSE, status |-> 0, text |-> ""]
         ELSE [ok |-> TRUE, status |-> 200, text |-> text]

\* callGeminiWithRetry: if (status === 429 || status >= 500)
retryable(status) == status = 429 \/ status >= 500

\* one callGemini of callGeminiWithRetry; the second is not inside the try
B_CallGemini ==
    /\ pc = "B_client" /\ rev = "B"
    /\ \E o \in GeminiOutcomes :
       LET result == callGemini(o) IN
        /\ net' = [net EXCEPT !.model = @ + 1]
        /\ gem' = [gem EXCEPT !.calls = @ + 1,
                              !.firstStatus = IF gem.calls = 0 THEN o.status ELSE @,
                              !.ok = result.ok, !.text = result.text]
        /\ pc' = IF ~result.ok /\ gem.attempt = 0 /\ retryable(result.status)
                 THEN "B_sleep" ELSE "B_rest"
    /\ UNCHANGED <<rev, apiKey, clock, CACHE, req, res, thrown, urls, idx, pages,
                   cacheLog, storedBy>>

\* await new Promise((r) => setTimeout(r, 1200))
B_Backoff ==
    /\ pc = "B_sleep" /\ rev = "B"
    /\ gem' = [gem EXCEPT !.slept = @ + 1, !.attempt = @ + 1]
    /\ pc' = "B_client"
    /\ UNCHANGED <<rev, apiKey, clock, CACHE, req, res, thrown, urls, idx, pages, net,
                   cacheLog, storedBy>>

-----------------------------------------------------------------------------
Next ==
    \/ Tick
    \/ Receive
    \/ Return
    \/ E_Entry
    \/ E_FetchPages
    \/ E_CallGemini
    \/ D_Entry
    \/ D_FetchPage
    \/ D_CallOnce
    \/ D_Backoff
    \/ C_Entry
    \/ C_FetchPage
    \/ C_CallGemini
    \/ A_Entry
    \/ A_Select
    \/ A_FetchPage
    \/ A_AskGemini
    \/ B_Entry
    \/ B_CallGemini
    \/ B_Backoff

Spec == Init /\ [][Next]_vars

-----------------------------------------------------------------------------
(* Vocabulary of the properties *)

\* the handler has answered (or its promise has rejected)
Done == pc = "done"

Is5xx(status) == status >= 500 /\ status <= 599

UrlsOf(srcs) == [i \in 1..Len(srcs) |-> srcs[i].url]

\* the four request-distinguishing fields: question, normalized base URL,
\* resolved preset, resolved model (the model is the same for every request)
SameFields(r1, r2) ==
    /\ r1.question = r2.question
    /\ StripSlashes(E_siteBaseUrl(r1)) = StripSlashes(E_siteBaseUrl(r2))
    /\ E_preset(r1) = E_preset(r2)

\* the fixed messages that stand in for an answer
DegradedAnswers == {E_NoPages, E_NoAnswer, D_NoPages, D_Busy, D_Wrong, C_NoPages,
                    C_Unavailable, C_NoSummary, C_Wrong, A_NoPages, A_NoKey,
                    A_GeminiError, A_NoAnswer}

NoPagesAnswers == {E_NoPages, D_NoPages, C_NoPages, A_NoPages}

-----------------------------------------------------------------------------
(* Properties *)

\* C1: a POST whose (well-formed) body lacks a non-empty question or a
\* non-empty siteBaseUrl is answered with status 400, and no page, sitemap
\* or model call has been made when the handler answers (the credential
\* being set).
C1_MissingFieldIs400 ==
    (Done /\ apiKey /\ req.method = "POST" /\ req.body = "object"
          /\ (~Truthy(req.question) \/ ~Truthy(req.siteBaseUrl)))
    => (res.sent /\ res.status = 400 /\ net = NoNet)

\* C2: when a step after validation raises an exception (the body itself
\* was well-formed), the handler answers 200 with a fallback answer, a
\* sources list and an error descriptor: no 5xx, no escaping exception.
C2_ExceptionIs200 ==
    (Done /\ thrown # "no" /\ req.body = "object")
    => /\ thrown = "caught"
       /\ res.sent /\ res.status = 200
       /\ res.body.answer # Absent
       /\ res.body.hasSources
       /\ (res.body.error # Absent \/ res.body.debug # Absent)

\* C3: a cached payload is returned only to a request whose question, base
\* URL, preset and model equal those of the request that stored it.
C3_HitOnlyForSameFields ==
    (Done /\ cacheLog.hit) => SameFields(storedBy[cacheLog.key], req)

\* C4: the second of two identical requests within the TTL gets the answer
\* and sources of the first, flagged as a cache hit, with no model call.
C4_SecondIsFlaggedHit ==
    (Done /\ cacheLog.found /\ cacheLog.now - cacheLog.ts <= CACHE_TTL_MS
          /\ SameFields(storedBy[cacheLog.key], req))
    => /\ res.sent /\ res.status = 200
       /\ res.body.answer = CACHE[cacheLog.key].data.answer
       /\ res.body.sources = CACHE[cacheLog.key].data.sources
       /\ res.body.cached
       /\ net.model = 0

\* the step is a cacheGet(k)
IsGet(k) == cacheLog = NoLog /\ cacheLog' # NoLog /\ cacheLog'.key = k

\* the step is a cacheSet(k, payload)
IsSet(k) ==
    /\ DOMAIN CACHE' = DOMAIN CACHE \cup {k}
    /\ CACHE'[k].ts = clock
    /\ \A j \in DOMAIN CACHE \ {k} : CACHE'[j] = CACHE[j]

C5_Step ==
    /\ \A k \in {E_cacheKey(req)} :
         IsGet(k) =>
            LET live == k \in DOMAIN CACHE /\ clock - CACHE[k].ts <= CACHE_TTL_MS IN
            /\ cacheLog'.hit = live
            /\ live => /\ res'.sent /\ res'.body = CACHE[k].data
                       /\ CACHE' = CACHE
            /\ ~live => /\ ~res'.sent
                        /\ k \notin DOMAIN CACHE'
                        /\ \A j \in DOMAIN CACHE \ {k} : j \in DOMAIN CACHE' /\ CACHE'[j] = CACHE[j]
    /\ CACHE' # CACHE => (IsGet(E_cacheKey(req)) \/ \E k \in DOMAIN CACHE' : IsSet(k))
    /\ (res'.sent /\ cacheLog'.hit) => cacheLog'.now - cacheLog'.ts <= CACHE_TTL_MS

\* C5: cacheGet returns the stored payload exactly when the entry exists
\* and now - ts <= TTL, and removes an expired entry; cacheSet writes the
\* entry with the current time; nothing else changes the map; no entry
\* older than the TTL is ever returned.
C5_CacheGetSet == [][C5_Step]_vars

\* a read found an expired entry and removed it
C5_Witness == cacheLog.found /\ ~cacheLog.hit /\ cacheLog.key \notin DOMAIN CACHE

\* C6: no degraded response (fallback message) is ever stored in the cache.
C6_NoDegradedCached ==
    \A k \in DOMAIN CACHE : CACHE[k].data.answer \notin DegradedAnswers

\* C7: when some but not all pages were retrieved, the model is called and
\* the response's sources are exactly the retrieved pages' URLs, in order.
C7_SourcesAreRetrieved ==
    (Done /\ apiKey /\ thrown = "no" /\ ~cacheLog.hit
          /\ Len(pages) > 0 /\ Len(pages) < net.page)
    => /\ net.model >= 1
       /\ res.sent /\ res.status = 200
       /\ UrlsOf(res.body.sources) = UrlsOf(pages)

C9_RetryOn429Or5xx ==
    (rev \in {"B", "D"} /\ pc \in {"done", "B_rest"} /\ gem.calls >= 1)
    => /\ gem.calls <= 2
       /\ (gem.calls = 2) = (gem.firstStatus = 429 \/ Is5xx(gem.firstStatus))
       /\ gem.calls = 2 => gem.slept >= 1

\* C10: the answer of a response is never the empty string.
C10_AnswerNotEmpty ==
    (Done /\ res.sent) => res.body.answer # ""

\* C11: every JSON response the handler sends, on every branch (input error,
\* method error, configuration error, retrieval failure, model failure), has
\* an answer field holding non-empty text.
C11_EveryJsonHasAnswer ==
    (Done /\ res.sent /\ res.json) => res.body.answer \notin {Absent, ""}

\* A POST whose body is a JSON object with a non-blank question and a site
\* base URL: the request no input validation of any revision rejects.
WellFormedPost ==
    /\ req.method = "POST"
    /\ req.body = "object"
    /\ Truthy(req.question) /\ req.question \notin Blank
    /\ Truthy(req.siteBaseUrl)

\* C12: when the API credential is absent a POST is answered with status 500,
\* not degraded into a 200 answer, and the model endpoint is never called;
\* conversely status 500 is sent only when the credential is missing.
C12_500IffNoCredential ==
    (Done /\ res.sent /\ WellFormedPost) =>
        /\ (~apiKey) => (res.status = 500 /\ net.model = 0 /\ gem.calls = 0)
        /\ (res.status = 500) => ~apiKey

\* The handler of ask.js 431-469 has resolved the preset and selected its URLs.
B_Selected == rev = "B" /\ pc \in {"B_client", "B_sleep", "B_rest"}

\* The fixed path set of a preset, joined to the base URL.
PathsOf(p) ==
    CASE p = "cx" -> <<"/solutions/customer-experience/", "/solutions/">>
      [] p = "ex" -> <<"/solutions/employee-experience/", "/solutions/">>
      [] p = "core" -> <<"/", "/solutions/", "/offerings/">>
Joined(base, p) == [i \in 1..Len(PathsOf(p)) |-> base \o PathsOf(p)[i]]

\* The explicitly supplied preset, lower-cased and trimmed, and whether it is
\* one of core, cx, ex.
GivenPreset == Trim(Lower(IF Truthy(req.preset) THEN req.preset ELSE ""))
ValidPresetGiven == GivenPreset \in {"core", "cx", "ex"}
AskedLower == Lower(B_question(req))
BaseUrl == StripSlashes(B_siteBaseUrl(req))

\* C13 as stated: with no valid preset supplied, the preset is cx when the
\* lower-cased question contains "customer experience", ex when it contains
\* "employee experience", and core otherwise; the URLs are the path set of
\* that preset joined to the base URL; a supplied core, cx or ex is used as
\* given.
C13_PresetByPhrase ==
    B_Selected =>
        urls = Joined(BaseUrl,
                      IF ValidPresetGiven THEN GivenPreset
                      ELSE IF B_includes(AskedLower, "customer experience") THEN "cx"
                      ELSE IF B_includes(AskedLower, "employee experience") THEN "ex"
                      ELSE "core")

\* C13 amended: with no valid preset supplied, the preset is cx when the
\* lower-cased question contains "customer experience" or the whole word cx,
\* otherwise ex when it contains "employee experience" or the whole word ex,
\* and core otherwise; the URLs are the path set of that preset joined to the
\* base URL; a supplied core, cx or ex (in any case, with surrounding blanks)
\* is used as given.
C13_PresetByPhraseOrWord ==
    B_Selected =>
        urls = Joined(BaseUrl,
                      IF ValidPresetGiven THEN GivenPreset
                      ELSE IF \/ B_includes(AskedLower, "customer experience")
                              \/ B_hasWord(AskedLower, "cx") THEN "cx"
                      ELSE IF \/ B_includes(AskedLower, "employee experience")
                              \/ B_hasWord(AskedLower, "ex") THEN "ex"
                      ELSE "core")

\* The whole word cx, without the phrase and without a valid preset, selects
\* the cx pages.
C13_Witness ==
    /\ B_Selected
    /\ ~ValidPresetGiven
    /\ B_hasWord(AskedLower, "cx")
    /\ ~B_includes(AskedLower, "customer experience")
    /\ urls = Joined(BaseUrl, "cx")

\* The Access-Control-Allow-Headers values that include Content-Type.
AllowsContentType == {"Content-Type", B_Cors}

\* C14: every OPTIONS request is answered with status 200 or 204 and the CORS
\* headers, whatever its body and whether or not the credential is set, and
\* without any outbound call.
C14_OptionsIsPreflight ==
    (Done /\ req.method = "OPTIONS") =>
        /\ res.sent
        /\ res.status \in {200, 204}
        /\ res.cors \in AllowsContentType
        /\ thrown = "no"
        /\ net = NoNet

\* getCandidateUrls and pickTopUrls have run for the request (the selector
\* always fetches at least one sitemap).
A_Selected == rev = "A" /\ net.sitemap > 0

\* C15: whatever the sitemap fetches return, getCandidateUrls followed by
\* pickTopUrls yields a non-empty list of at most 5 URLs without duplicates.
C15_SelectionNotEmpty ==
    A_Selected =>
        /\ Len(urls) \in 1..5
        /\ \A i, j \in 1..Len(urls) : urls[i] = urls[j] => i = j

====
